---- MODULE Spec2Model ----
(***************************************************************************)
(* Model of drivers/misc/sram.c: the generic on-chip SRAM allocation       *)
(* driver.  sram_probe maps the region, creates the gen_pool, and calls    *)
(* sram_reserve_regions, which collects the reserved blocks of the device  *)
(* tree children, appends the end marker, sorts the list with              *)
(* sram_reserve_cmp and walks it, adding to the pool every chunk that lies *)
(* between two reserved blocks.  sram_remove reports outstanding           *)
(* allocations and disables the clock.                                     *)
(*                                                                         *)
(* Integers are modelled at one width: u32, int, unsigned long and         *)
(* resource_size_t (a 32-bit build) are all W bits wide, W scaled down.    *)
(***************************************************************************)
EXTENDS Integers, Sequences, FiniteSets

\* width in bits of u32 / int / unsigned long / resource_size_t, scaled down
W == 3
\* most device-tree children of the sram node
MaxRes == 2
\* largest size of a child's reg range
MaxSz == 2
\* highest physical base address of the region
MaxBase == 1
\* most granules allocated from the pool at one time
MaxAlloc == 2

Mod == 2 ^ W

\* unsigned W-bit wrap-around of a value in -Mod .. 2*Mod
u32(x) == (x + Mod) % Mod

\* conversion of a W-bit unsigned value to int (two's complement)
to_int(x) == IF x >= Mod \div 2 THEN x - Mod ELSE x

\* resource_size(): end - start + 1 in resource_size_t
resource_size(r) == u32(u32(r.end - r.start) + 1)

\* the resource of_address_to_resource() fills in for reg = <s z>:
\* start = s, end = s + z - 1 in resource_size_t
reg(s, z) == [start |-> s, end |-> u32(s + z - 1)]

\* the memory resources a platform device can carry: base b, size n,
\* 1 <= n <= Mod - 1, inside the address space
Regions ==
    {reg(p[1], p[2]) :
        p \in {q \in (0..MaxBase) \X (1..(Mod - 1)) : q[1] + q[2] <= Mod}}

\* the reg ranges a child node can carry: start s, size z, inside the
\* address space (s = 0, z = 0 gives end = Mod - 1, as the subtraction does)
ChildRegs ==
    {reg(p[1], p[2]) :
        p \in {q \in (0..(Mod - 1)) \X (0..MaxSz) : q[1] + q[2] <= Mod}}

RECURSIVE SeqsUpTo(_, _)
SeqsUpTo(S, n) ==
    IF n = 0 THEN {<<>>}
    ELSE LET shorter == SeqsUpTo(S, n - 1)
         IN  shorter \cup {Append(q, x) : q \in {p \in shorter : Len(p) = n - 1}, x \in S}

VARIABLES
    res,            \* the region's memory resource [start, end]
    children,       \* the available child nodes' reg resources, in tree order
                    \* (empty also when the device has no of_node)
    pc,             \* position of the probe / lifetime of the device
    ret,            \* value sram_probe returned ("OK" for 0)
    err,            \* the return site that failed, "none" if none did
    reserve_list,   \* reserve_list: the blocks [start, size]
    idx,            \* the child being read, then the block being scanned
    cur_start,      \* cur_start of the scan
    pool,           \* chunks added to sram->pool: [phys, size]
    clk,            \* sram->clk: "unset", "NULL" or "clk"
    clk_on,         \* the clock is prepared and enabled by this driver
    clk_off_calls,  \* clk_disable_unprepare() calls made by sram_remove
    drvdata,        \* platform_set_drvdata() has published the sram_dev
    allocated,      \* granules handed out by the pool and not freed
    warned          \* sram_remove printed "removed while SRAM allocated"

vars == <<res, children, pc, ret, err, reserve_list, idx, cur_start, pool,
          clk, clk_on, clk_off_calls, drvdata, allocated, warned>>

----------------------------------------------------------------------------
\* sram_reserve_cmp: the W-bit difference of the starts, returned as int
sram_reserve_cmp(ra, rb) == to_int(u32(ra.start - rb.start))

\* merge() of lib/list_sort.c: a is taken while cmp(a, b) <= 0
RECURSIVE merge(_, _)
merge(a, b) ==
    IF a = <<>> THEN b
    ELSE IF b = <<>> THEN a
    ELSE IF sram_reserve_cmp(Head(a), Head(b)) <= 0
         THEN <<Head(a)>> \o merge(Tail(a), b)
         ELSE <<Head(b)>> \o merge(a, Tail(b))

\* list_sort(): the inner loop that merges cur up the levels of part[]
RECURSIVE carry(_, _, _)
carry(part, lev, cur) ==
    IF lev <= Len(part) /\ part[lev] # <<>>
    THEN carry([part EXCEPT ![lev] = <<>>], lev + 1, merge(part[lev], cur))
    ELSE IF lev > Len(part) THEN Append(part, cur)
         ELSE [part EXCEPT ![lev] = cur]

\* list_sort(): the outer loop over the elements of the list
RECURSIVE feed(_, _)
feed(part, list) ==
    IF list = <<>> THEN part
    ELSE feed(carry(part, 1, <<Head(list)>>), Tail(list))

\* list_sort(): the final merges of the pending levels, lowest first
RECURSIVE collect(_, _, _)
collect(part, lev, list) ==
    IF lev > Len(part) THEN list
    ELSE collect(part, lev + 1,
                 IF part[lev] # <<>> THEN merge(part[lev], list) ELSE list)

\* list_sort(NULL, &reserve_list, sram_reserve_cmp)
list_sort(list) ==
    IF list = <<>> THEN <<>> ELSE collect(feed(<<>>, list), 1, <<>>)

----------------------------------------------------------------------------
\* the bounds check without its test of the end of the child
child_outside_start_only(r, c) == c.start < r.start

\* child_res.start < res->start || child_res.end > res->end
child_outside(r, c) == c.start < r.start \/ c.end > r.end

\* block->start = child_res.start - res->start; block->size = resource_size()
child_block(r, c) ==
    [start |-> u32(c.start - r.start), size |-> resource_size(c)]

\* rblocks[nblocks - 1]: the block that marks the end of the region
end_block(r) == [start |-> resource_size(r), size |-> 0]

\* the overlap test applied to the end of the block instead of its start
starts_before_by_end(block, cur) == block.start + block.size < cur

\* block->start < cur_start: "can only happen if sections overlap"
starts_before(block, cur) == block.start < cur

\* cur_start = block->start + block->size
next_start(block) == u32(block.start + block.size)

\* a chunk that runs to the end of block instead of its start
chunk_through(r, block, cur) ==
    [phys |-> u32(r.start + cur),
     size |-> u32(block.start + block.size - cur)]

\* the chunk gen_pool_add_virt() is given for the space before block
chunk_before(r, block, cur) ==
    [phys |-> u32(r.start + cur), size |-> u32(block.start - cur)]

\* sram_probe going on whatever sram_reserve_regions returned
after_reserve_ignored(r) == "clk"

\* ret = sram_reserve_regions(sram, res); if (ret) return ret;
after_reserve(r) == IF r # "OK" THEN "failed" ELSE "clk"

\* gen_pool_size(): the sum of the sizes of the chunks
RECURSIVE gen_pool_size(_)
gen_pool_size(p) ==
    IF p = <<>> THEN 0 ELSE Head(p).size + gen_pool_size(Tail(p))

\* gen_pool_avail(): what is not allocated
gen_pool_avail(p, used) == gen_pool_size(p) - used

\* gen_pool_avail(sram->pool) < gen_pool_size(sram->pool)
still_allocated(p, used) == gen_pool_avail(p, used) < gen_pool_size(p)

\* sram_reserve_regions: the list_for_each_entry loop from block i on, when
\* gen_pool_add_virt accepts every chunk: the failing site and the chunks added
RECURSIVE reserve_scan(_, _, _, _, _)
reserve_scan(r, list, i, cur, chunks) ==
    IF i > Len(list) THEN [err |-> "none", pool |-> chunks]
    ELSE IF starts_before(list[i], cur)
         THEN [err |-> "overlap", pool |-> chunks]
    ELSE IF list[i].start = cur
         THEN reserve_scan(r, list, i + 1, next_start(list[i]), chunks)
    ELSE reserve_scan(r, list, i + 1, next_start(list[i]),
                      Append(chunks, chunk_before(r, list[i], cur)))

\* sram_reserve_regions as a function of the region and the children, when
\* kmalloc, of_address_to_resource and gen_pool_add_virt all succeed
sram_reserve_regions(r, kids) ==
    IF \E i \in 1..Len(kids) : child_outside(r, kids[i])
    THEN [err |-> "outside", pool |-> <<>>]
    ELSE reserve_scan(r,
             list_sort(Append([i \in 1..Len(kids) |-> child_block(r, kids[i])],
                              end_block(r))),
             1, 0, <<>>)

----------------------------------------------------------------------------
Init ==
    /\ res \in Regions
    /\ children \in SeqsUpTo(ChildRegs, MaxRes)
    /\ pc = "probe"
    /\ ret = "OK"
    /\ err = "none"
    /\ reserve_list = <<>>
    /\ idx = 1
    /\ cur_start = 0
    /\ pool = <<>>
    /\ clk = "unset"
    /\ clk_on = FALSE
    /\ clk_off_calls = 0
    /\ drvdata = FALSE
    /\ allocated = 0
    /\ warned = FALSE

\* sram_probe returns e from its own return site named by site
Fail(site, e) ==
    /\ pc' = "failed"
    /\ ret' = e
    /\ err' = site

\* sram_reserve_regions returns e from the site named by site, and
\* sram_probe acts on the value
ReserveFail(site, e) ==
    /\ pc' = after_reserve(e)
    /\ ret' = e
    /\ err' = site

\* the calls of sram_probe before sram_reserve_regions, each of which can fail
SetupFailures ==
    { <<"kzalloc", "ENOMEM">>, <<"no_resource", "EINVAL">>,
      <<"busy", "EBUSY">>, <<"ioremap", "ENOMEM">>,
      <<"pool_create", "ENOMEM">> }

\* sram_probe up to devm_gen_pool_create
ProbeSetup ==
    /\ pc = "probe"
    /\ \/ \E f \in SetupFailures : Fail(f[1], f[2])
       \/ pc' = "kmalloc" /\ UNCHANGED <<ret, err>>
    /\ UNCHANGED <<res, children, reserve_list, idx, cur_start, pool, clk,
                   clk_on, clk_off_calls, drvdata, allocated, warned>>

\* sram_reserve_regions: INIT_LIST_HEAD and the kmalloc of rblocks
ReserveAlloc ==
    /\ pc = "kmalloc"
    /\ \/ ReserveFail("kmalloc", "ENOMEM") /\ UNCHANGED <<reserve_list, idx>>
       \/ /\ pc' = "children"
          /\ reserve_list' = <<>>
          /\ idx' = 1
          /\ UNCHANGED <<ret, err>>
    /\ UNCHANGED <<res, children, cur_start, pool, clk, clk_on,
                   clk_off_calls, drvdata, allocated, warned>>

\* sram_reserve_regions: one pass of for_each_available_child_of_node
ReserveChild ==
    /\ pc = "children"
    /\ idx <= Len(children)
    /\ \/ ReserveFail("address", "EINVAL") /\ UNCHANGED <<reserve_list, idx>>
       \/ IF child_outside(res, children[idx])
          THEN ReserveFail("outside", "EINVAL") /\ UNCHANGED <<reserve_list, idx>>
          ELSE /\ reserve_list' =
                      Append(reserve_list, child_block(res, children[idx]))
               /\ idx' = idx + 1
               /\ UNCHANGED <<pc, ret, err>>
    /\ UNCHANGED <<res, children, cur_start, pool, clk, clk_on,
                   clk_off_calls, drvdata, allocated, warned>>

\* sram_reserve_regions: the end marker, list_sort and cur_start = 0
ReserveSort ==
    /\ pc = "children"
    /\ idx > Len(children)
    /\ reserve_list' = list_sort(Append(reserve_list, end_block(res)))
    /\ cur_start' = 0
    /\ idx' = 1
    /\ pc' = "scan"
    /\ UNCHANGED <<res, children, ret, err, pool, clk, clk_on,
                   clk_off_calls, drvdata, allocated, warned>>

\* sram_reserve_regions: one pass of list_for_each_entry; after the last
\* block the function returns 0 and sram_probe goes on
ReserveScan ==
    /\ pc = "scan"
    /\ idx <= Len(reserve_list)
    /\ LET block == reserve_list[idx]
           more  == IF idx < Len(reserve_list) THEN "scan"
                    ELSE after_reserve("OK")
       IN  IF starts_before(block, cur_start)
           THEN /\ ReserveFail("overlap", "EINVAL")
                /\ UNCHANGED <<idx, cur_start, pool>>
           ELSE IF block.start = cur_start
           THEN /\ cur_start' = next_start(block)
                /\ idx' = idx + 1
                /\ pc' = more
                /\ UNCHANGED <<ret, err, pool>>
           ELSE \/ /\ ReserveFail("add_virt", "ENOMEM")
                   /\ UNCHANGED <<idx, cur_start, pool>>
                \/ /\ pool' = Append(pool, chunk_before(res, block, cur_start))
                   /\ cur_start' = next_start(block)
                   /\ idx' = idx + 1
                   /\ pc' = more
                   /\ UNCHANGED <<ret, err>>
    /\ UNCHANGED <<res, children, reserve_list, clk, clk_on, clk_off_calls,
                   drvdata, allocated, warned>>

\* sram_probe: devm_clk_get, clk_prepare_enable, platform_set_drvdata
ProbeClk ==
    /\ pc = "clk"
    /\ \/ clk' = "NULL" /\ clk_on' = FALSE
       \/ clk' = "clk" /\ clk_on' \in BOOLEAN
    /\ drvdata' = TRUE
    /\ ret' = "OK"
    /\ pc' = "ready"
    /\ UNCHANGED <<res, children, err, reserve_list, idx, cur_start, pool,
                   clk_off_calls, allocated, warned>>

\* a client allocates n granules from the pool
Alloc ==
    /\ pc = "ready"
    /\ \E n \in 1..MaxAlloc :
          /\ allocated + n <= MaxAlloc
          /\ n <= gen_pool_avail(pool, allocated)
          /\ allocated' = allocated + n
    /\ UNCHANGED <<res, children, pc, ret, err, reserve_list, idx, cur_start,
                   pool, clk, clk_on, clk_off_calls, drvdata, warned>>

\* a client frees n granules
Free ==
    /\ pc = "ready"
    /\ \E n \in 1..MaxAlloc :
          /\ n <= allocated
          /\ allocated' = allocated - n
    /\ UNCHANGED <<res, children, pc, ret, err, reserve_list, idx, cur_start,
                   pool, clk, clk_on, clk_off_calls, drvdata, warned>>

\* sram_remove
Remove ==
    /\ pc = "ready"
    /\ warned' = still_allocated(pool, allocated)
    /\ clk_off_calls' = IF clk # "NULL" THEN clk_off_calls + 1
                        ELSE clk_off_calls
    /\ ret' = "OK"
    /\ pc' = "removed"
    /\ UNCHANGED <<res, children, err, reserve_list, idx, cur_start, pool,
                   clk, clk_on, drvdata, allocated>>

Next ==
    \/ ProbeSetup
    \/ ReserveAlloc
    \/ ReserveChild
    \/ ReserveSort
    \/ ReserveScan
    \/ ProbeClk
    \/ Alloc
    \/ Free
    \/ Remove

Spec == Init /\ [][Next]_vars

----------------------------------------------------------------------------
(* Vocabulary of the properties: offsets are relative to the region base.  *)

RegionSize == resource_size(res)
Kids == 1..Len(children)
\* first offset, size and end offset of a child's range, as integers
Lo(c) == c.start - res.start
Sz(c) == resource_size(c)
Hi(c) == Lo(c) + Sz(c)
\* the range of c is contained in [0, RegionSize)
InBounds(c) == Lo(c) >= 0 /\ Hi(c) <= RegionSize
\* the ranges of c and d share an offset
Intersect(c, d) == Sz(c) > 0 /\ Sz(d) > 0 /\ Lo(c) < Hi(d) /\ Lo(d) < Hi(c)
AllInBounds == \A i \in Kids : InBounds(children[i])
HasIntersecting ==
    \E i \in Kids : \E j \in (i + 1)..Len(children) :
        Intersect(children[i], children[j])
\* the reservations whose range holds offset o
Reserved(o) == {i \in Kids : Lo(children[i]) <= o /\ o < Hi(children[i])}
\* first and end offset of the k-th chunk added to the pool
SpanLo(k) == pool[k].phys - res.start
SpanHi(k) == SpanLo(k) + pool[k].size
\* the chunks of the pool that hold offset o
Covering(o) == {k \in 1..Len(pool) : SpanLo(k) <= o /\ o < SpanHi(k)}
\* sram_probe has returned, with an error or with 0
Ended == pc \in {"failed", "ready", "removed"}
Succeeded == pc \in {"clk", "ready", "removed"}
\* failures of calls into the rest of the kernel, which no list of
\* reservations causes
External ==
    {"kzalloc", "no_resource", "busy", "ioremap", "pool_create", "kmalloc",
     "address", "add_virt"}
\* the run ended and no external call failed in it
Decided == (Ended \/ pc = "clk") /\ err \notin External
Perms(q) ==
    {[i \in 1..Len(q) |-> q[f[i]]] :
        f \in {g \in [1..Len(q) -> 1..Len(q)] :
                 \A a, b \in 1..Len(q) : a # b => g[a] # g[b]}}
Insert(q, k, x) == SubSeq(q, 1, k) \o <<x>> \o SubSeq(q, k + 1, Len(q))
Sign(x) == IF x < 0 THEN -1 ELSE IF x = 0 THEN 0 ELSE 1

----------------------------------------------------------------------------
\* C1: for in-bounds, pairwise non-overlapping reservations (here: of
\* non-zero size), when no external call is rejected, sram_reserve_regions
\* succeeds and every offset of the region lies in exactly one reservation
\* or exactly one chunk of the pool.
C1_Tiling ==
    (Decided /\ AllInBounds /\ ~HasIntersecting
        /\ \A i \in Kids : Sz(children[i]) > 0)
    => /\ Succeeded
       /\ \A o \in 0..(RegionSize - 1) :
             Cardinality(Reserved(o)) + Cardinality(Covering(o)) = 1

\* C2: in every state of every run, every chunk added to the pool has
\* size > 0, lies inside the region and holds no offset of a reservation.
C2_ChunksAreFree ==
    \A k \in 1..Len(pool) :
       /\ pool[k].size > 0
       /\ SpanLo(k) >= 0
       /\ SpanHi(k) <= RegionSize
       /\ \A o \in SpanLo(k)..(SpanHi(k) - 1) : Reserved(o) = {}

C5_OrderIndependent ==
    Decided
    => \A p \in Perms(children) :
          sram_reserve_regions(res, p) = [err |-> err, pool |-> pool]

\* C6: after a successful run, a zero-size reservation inserted at any
\* position of the list and at any offset (here: 1 .. RegionSize) would
\* still succeed with the same list of chunks.
C6_ZeroSizeInert ==
    Succeeded
    => \A k \in 0..Len(children), o \in 1..RegionSize :
          sram_reserve_regions(res, Insert(children, k, reg(res.start + o, 0)))
              = [err |-> "none", pool |-> pool]

C8_NoPartialRegion ==
    /\ (drvdata \/ clk # "unset" \/ clk_on)
       => /\ pc \in {"ready", "removed"}
          /\ err = "none"
          /\ \A i \in Kids : ~child_outside(res, children[i])
          /\ Len(reserve_list) = Len(children) + 1
          /\ idx = Len(reserve_list) + 1
          /\ cur_start = RegionSize
    /\ pc \in {"ready", "removed"} => drvdata /\ clk # "unset"
    /\ pc = "failed"
       => /\ ~drvdata /\ clk = "unset" /\ ~clk_on
          /\ err # "none"
          /\ ret = IF err \in {"no_resource", "address", "outside", "overlap"}
                   THEN "EINVAL"
                   ELSE IF err = "busy" THEN "EBUSY" ELSE "ENOMEM"
          /\ ~ENABLED Next

\* C8 witness: a chunk was added, a later one was rejected, the probe failed.
C8_Witness ==
    pc = "failed" /\ err = "add_virt" /\ pool # <<>> /\ ~drvdata

\* C9: sram_remove warns exactly when the pool's available size is less
\* than its total size, disables the clock exactly when the probe enabled
\* one, and returns 0.
C9_Teardown ==
    pc = "removed"
    => /\ warned <=> gen_pool_avail(pool, allocated) < gen_pool_size(pool)
       /\ clk_off_calls = (IF clk_on THEN 1 ELSE 0)
       /\ ret = "OK"

\* C10: after list_sort the list, end marker included, is ascending by
\* start, and sram_reserve_cmp is negative, zero or positive exactly when
\* ra.start is less than, equal to or greater than rb.start.
C10_SortedByStart ==
    pc = "scan"
    => /\ \A i \in 1..(Len(reserve_list) - 1) :
             reserve_list[i].start <= reserve_list[i + 1].start
       /\ \A i, j \in 1..Len(reserve_list) :
             Sign(sram_reserve_cmp(reserve_list[i], reserve_list[j]))
                 = Sign(reserve_list[i].start - reserve_list[j].start)

====
